---------------------------- MODULE Spec2Model ----------------------------
(***************************************************************************)
(* GaiaNet (src/app.py): the multi-stage inference pipeline of the         *)
(* Streamlit script -- the tolerant JSON extractor, the synthetic history  *)
(* generator, the capability selection on the process environment, the     *)
(* four stage functions and the Species Detection tab that sequences them  *)
(* and writes st.session_state, followed by the tabs that read it back.    *)
(*                                                                         *)
(* Three specifications share the variables:                               *)
(*   SpecExtract  safe_json_parse applied to bounded input strings         *)
(*   SpecHist     the synthetic history loop applied to bounded dates      *)
(*   Spec         script runs of one session, with other sessions' writes  *)
(*                to os.environ interleaved                                *)
(***************************************************************************)
EXTENDS Integers, Sequences, FiniteSets, TLC

VARIABLES
    \* ---- safe_json_parse under test
    text,        \* the argument: a sequence of one-character strings
    xpc,         \* "idle" | "input" | "done"
    xres,        \* what the call did: [raised, value]
    \* ---- synthetic history under test
    today,       \* datetime.utcnow().date() as <<year, month, day>>
    hpc,         \* "idle" | "loop" | "done"
    hidx,          \* the loop variable i of range(6)
    hist,        \* the list hist, then the rows of df
    \* ---- define_gbif_query_predicate under test
    gnow,        \* datetime.utcnow(): [date, time]
    gdays,       \* days_back
    gpc,         \* "idle" | "input" | "done"
    gpred,       \* the returned predicate_body
    \* ---- the process
    HAS_GEMINI,  \* the google.generativeai import succeeded
    envKey,      \* "GEMINI_API_KEY" in os.environ
    envAtStart,  \* whether the process was started with the variable set
    clip_pipe,   \* load_clip()'s cached result: "pipeline" | "None"
    \* ---- the session's widgets, as of the current script run
    api_key,     \* the sidebar text input is non-empty
    uploaded,    \* an image is in the uploader
    history_csv, \* "none" | "valid" | "malformed"
    auto_run,    \* the checkbox
    \* ---- the script run
    pc,          \* where the script is
    fault,       \* the exception that left the script, [kind, line]
    parsed,      \* the local parsed of the Species Detection tab
    df,          \* the local df
    session_state, \* st.session_state: key -> entry, for the keys present
    \* ---- history of the current run (not program state)
    calls,       \* the stage calls so far: begin / end / raise events
    fresh        \* the session_state keys written so far

xvars == <<text, xpc, xres>>
hvars == <<today, hpc, hidx, hist>>
gvars == <<gnow, gdays, gpc, gpred>>
procvars == <<HAS_GEMINI, envKey, envAtStart, clip_pipe>>
widgets == <<api_key, uploaded, history_csv, auto_run>>
runvars == <<pc, fault, parsed, df, session_state, calls, fresh>>
pvars == <<procvars, widgets, runvars>>

(***************************************************************************)
(* Bounds                                                                  *)
(***************************************************************************)
MaxLen == 4          \* every string over Chars up to this length is an input
MaxNoise == 2        \* noise characters put before and after a sample text
FirstYear == 2024    \* the current date ranges over NumYears years from here
NumYears == 2
MaxSpecies == 2      \* species records in a remote detection response
MaxDaysBack == 8     \* days_back ranges over 0..MaxDaysBack

(***************************************************************************)
(* json.loads on the characters the inputs are drawn from: objects,        *)
(* strings, integers and blanks; a bare letter is not JSON.                *)
(***************************************************************************)
Quote == "\""

Chars == {"{", "}", Quote, "a", ":", "1", " ", ","}

WHITESPACE == {" "}

None == [t |-> "null", v |-> 0]

JNum(n) == [t |-> "num", v |-> n]

JStr(s) == [t |-> "str", v |-> s]

JObj(f) == [t |-> "obj", v |-> f]

EmptyObj == JObj(<<>>)

\* dict assignment pairs[key] = value: a repeated key keeps the last value
DictSet(f, k, val) ==
    [x \in (DOMAIN f) \cup {k} |-> IF x = k THEN val ELSE f[x]]

Fail == [ok |-> FALSE, val |-> None, end |-> 0]

Ok(val, end) == [ok |-> TRUE, val |-> val, end |-> end]

CharAt(s, i) == IF i >= 1 /\ i <= Len(s) THEN s[i] ELSE "EOF"

\* WHITESPACE.match(s, i).end(): the first index at or after i that is no blank
RECURSIVE SkipWs(_, _)
SkipWs(s, i) ==
    IF CharAt(s, i) \in WHITESPACE THEN SkipWs(s, i + 1) ELSE i

\* py_scanstring from the index after the opening quote: the closing quote's index
RECURSIVE ScanString(_, _)
ScanString(s, i) ==
    IF i > Len(s) THEN 0
    ELSE IF s[i] = Quote THEN i
    ELSE ScanString(s, i + 1)

\* NUMBER_RE.match: the digits 1+ starting at i; the index after them
RECURSIVE ScanDigits(_, _)
ScanDigits(s, i) ==
    IF CharAt(s, i) = "1" THEN ScanDigits(s, i + 1) ELSE i

RECURSIVE DigitsValue(_)
DigitsValue(n) == IF n = 0 THEN 0 ELSE 10 * DigitsValue(n - 1) + 1

RECURSIVE ScanOnce(_, _)
RECURSIVE ScanMembers(_, _, _)

\* JSONObject's loop, at the opening quote of a property name
ScanMembers(s, i, pairs) ==
    LET close == ScanString(s, i + 1) IN
    IF close = 0 THEN Fail
    ELSE
      LET key   == SubSeq(s, i + 1, close - 1)
          colon == SkipWs(s, close + 1)
      IN
      IF CharAt(s, colon) # ":" THEN Fail
      ELSE
        LET r == ScanOnce(s, SkipWs(s, colon + 1)) IN
        IF ~r.ok THEN Fail
        ELSE
          LET got == DictSet(pairs, key, r.val)
              nxt == SkipWs(s, r.end)
          IN
          IF CharAt(s, nxt) = "}" THEN Ok(JObj(got), nxt + 1)
          ELSE IF CharAt(s, nxt) # "," THEN Fail
          ELSE
            LET name == SkipWs(s, nxt + 1) IN
            IF CharAt(s, name) # Quote THEN Fail
            ELSE ScanMembers(s, name, got)

\* JSONObject, from the index after the opening brace
JSONObject(s, i) ==
    LET j == SkipWs(s, i) IN
    IF CharAt(s, j) = "}" THEN Ok(EmptyObj, j + 1)
    ELSE IF CharAt(s, j) # Quote THEN Fail
    ELSE ScanMembers(s, j, <<>>)

\* scan_once: one JSON value starting exactly at i
ScanOnce(s, i) ==
    LET c == CharAt(s, i) IN
    IF c = Quote THEN
        LET close == ScanString(s, i + 1) IN
        IF close = 0 THEN Fail ELSE Ok(JStr(SubSeq(s, i + 1, close - 1)), close + 1)
    ELSE IF c = "{" THEN JSONObject(s, i + 1)
    ELSE IF c = "1" THEN
        LET e == ScanDigits(s, i) IN Ok(JNum(DigitsValue(e - i)), e)
    ELSE Fail

\* json.loads: blanks, one value, blanks, end of text; anything else raises
json_loads(s) ==
    LET r == ScanOnce(s, SkipWs(s, 1)) IN
    IF r.ok /\ SkipWs(s, r.end) = Len(s) + 1
    THEN [ok |-> TRUE, val |-> r.val]
    ELSE [ok |-> FALSE, val |-> None]

(***************************************************************************)
(* safe_json_parse                                                         *)
(***************************************************************************)
\* str.find(c): the 0-based index of the first c, -1 when there is none
RECURSIVE FindFrom(_, _, _)
FindFrom(s, c, i) ==
    IF i > Len(s) THEN -1
    ELSE IF s[i] = c THEN i - 1
    ELSE FindFrom(s, c, i + 1)

find(s, c) == FindFrom(s, c, 1)

RECURSIVE RFindFrom(_, _, _)
RFindFrom(s, c, i) ==
    IF i < 1 THEN -1
    ELSE IF s[i] = c THEN i - 1
    ELSE RFindFrom(s, c, i - 1)

rfindAsFind(s, c) == FindFrom(s, c, 1)

\* str.rfind(c): the 0-based index of the last c, -1 when there is none
rfind(s, c) == RFindFrom(s, c, Len(s))

\* text[lo:hidx] for 0 <= lo, hidx: empty when hidx <= lo
PySlice(s, lo, hi) ==
    LET h == IF hi > Len(s) THEN Len(s) ELSE hi IN
    IF h <= lo THEN <<>> ELSE SubSeq(s, lo + 1, h)

Returned(val) == [raised |-> FALSE, value |-> val]

Raised == [raised |-> TRUE, value |-> None]

InnerExceptMissing == Raised

\* the inner "except: return None"
InnerExcept == Returned(None)

safe_json_parse(s) ==
    LET whole == json_loads(s) IN
    IF whole.ok THEN Returned(whole.val)
    ELSE
      LET st == find(s, "{")
          e  == rfind(s, "}")
      IN
      IF st # -1 /\ e # -1 THEN
          LET sub == json_loads(PySlice(s, st, e + 1)) IN
          IF sub.ok THEN Returned(sub.val) ELSE InnerExcept
      ELSE Returned(None)

(***************************************************************************)
(* Inputs of the extractor                                                 *)
(***************************************************************************)
RECURSIVE StringsUpTo(_)
StringsUpTo(n) ==
    IF n = 0 THEN {<<>>}
    ELSE LET shorter == StringsUpTo(n - 1) IN
         shorter \cup {Append(s, c) : s \in shorter, c \in Chars}

KeyA == <<Quote, "a", Quote>>

ObjA1 == <<"{">> \o KeyA \o <<":", "1", "}">>

\* {a: }
BadObj == <<"{", "a", ":", " ", "}">>

\* {"a":{}}
Nested == <<"{">> \o KeyA \o <<":", "{", "}", "}">>

\* {"a":1,"a":11}
Twice == <<"{">> \o KeyA \o <<":", "1", ",">> \o KeyA \o <<":", "1", "1", "}">>

Samples == {ObjA1, BadObj, Nested, Twice, <<"{", "}">>}

NoiseChars == {"a", " ", "}", "{"}

RECURSIVE NoiseUpTo(_)
NoiseUpTo(n) ==
    IF n = 0 THEN {<<>>}
    ELSE LET shorter == NoiseUpTo(n - 1) IN
         shorter \cup {Append(s, c) : s \in shorter, c \in NoiseChars}

ExtractInputs ==
    StringsUpTo(MaxLen)
      \cup {pre \o mid \o post :
              pre \in NoiseUpTo(MaxNoise), mid \in Samples, post \in NoiseUpTo(MaxNoise)}

XIdle == text = <<>> /\ xpc = "idle" /\ xres = Returned(None)

HIdle == today = <<FirstYear, 1, 1>> /\ hpc = "idle" /\ hidx = 0 /\ hist = <<>>

NoDateTime == [date |-> <<FirstYear, 1, 1>>, time |-> <<0, 0, 0, 0>>]

GIdle == gnow = NoDateTime /\ gdays = 0 /\ gpc = "idle" /\ gpred = <<>>

\* the pipeline at rest, for the specifications that do not run it
NoFault == [kind |-> "none", line |-> 0]

Fault(kind, line) == [kind |-> kind, line |-> line]

NoFrame == [dateType |-> "none", rows |-> <<>>]

WidgetDefaults ==
    /\ api_key = FALSE
    /\ uploaded = FALSE
    /\ history_csv = "none"
    /\ auto_run = TRUE

RunReset ==
    /\ fault = NoFault
    /\ parsed = None
    /\ df = NoFrame
    /\ calls = <<>>
    /\ fresh = {}

PIdle ==
    /\ HAS_GEMINI = TRUE
    /\ envKey = FALSE
    /\ envAtStart = FALSE
    /\ clip_pipe = "pipeline"
    /\ WidgetDefaults
    /\ pc = "off"
    /\ RunReset
    /\ session_state = <<>>

InitExtract ==
    /\ text \in ExtractInputs
    /\ xpc = "input"
    /\ xres = Returned(None)
    /\ HIdle
    /\ GIdle
    /\ PIdle

CallSafeJsonParse ==
    /\ xpc = "input"
    /\ xres' = safe_json_parse(text)
    /\ xpc' = "done"
    /\ UNCHANGED <<text, hvars, pvars, gvars>>

NextExtract == CallSafeJsonParse

(***************************************************************************)
(* Synthetic history (Species Detection tab, no history CSV)               *)
(***************************************************************************)
base == 120

step == 12

months == 6

\* today.replace(day=1) - pd.DateOffset(months=i)
MonthStartBack(d, i) ==
    LET k == d[1] * 12 + (d[2] - 1) - i IN
    <<k \div 12, (k % 12) + 1, 1>>

\* the dict appended in iteration i; strftime("%Y-%m-%d") keeps year, month, day
HistEntry(d, i) == [date |-> MonthStartBack(d, i), count |-> base - i * step]

Reverse(s) == [j \in 1..Len(s) |-> s[Len(s) + 1 - j]]

NotReversed(s) == s

\* hist[::-1]
Chronological(s) == Reverse(s)

\* pd.DataFrame(hist[::-1]): the date column holds the strftime strings
SyntheticFrame(rows) == [dateType |-> "str", rows |-> Chronological(rows)]

SyntheticHistory(d) ==
    SyntheticFrame([j \in 1..months |-> HistEntry(d, j - 1)])

IsLeap(y) == (y % 4 = 0 /\ y % 100 # 0) \/ y % 400 = 0

DaysIn(y, m) ==
    IF m = 2 THEN (IF IsLeap(y) THEN 29 ELSE 28)
    ELSE IF m \in {4, 6, 9, 11} THEN 30 ELSE 31

Dates ==
    {<<y, m, d>> : y \in FirstYear..(FirstYear + NumYears - 1), m \in 1..12, d \in 1..31}

ValidDates == {d \in Dates : d[3] <= DaysIn(d[1], d[2])}

InitHist ==
    /\ today \in ValidDates
    /\ hpc = "loop"
    /\ hidx = 0
    /\ hist = <<>>
    /\ XIdle
    /\ GIdle
    /\ PIdle

\* one iteration of "for i in range(6)"
HistLoop ==
    /\ hpc = "loop"
    /\ hidx < months
    /\ hist' = Append(hist, HistEntry(today, hidx))
    /\ hidx' = hidx + 1
    /\ UNCHANGED <<today, hpc, xvars, pvars, gvars>>

\* df = pd.DataFrame(hist[::-1])
HistFrame ==
    /\ hpc = "loop"
    /\ hidx = months
    /\ hist' = SyntheticFrame(hist).rows
    /\ hpc' = "done"
    /\ UNCHANGED <<today, hidx, xvars, pvars, gvars>>

NextHist == HistLoop \/ HistFrame

(***************************************************************************)
(* The values the pipeline handles                                         *)
(***************************************************************************)
\* {"error": "Gemini unavailable"}
ErrorMarker == [error |-> "Gemini unavailable"]

\* {"raw": ..., "parsed": ...}
Outcome(raw, p) == [raw |-> raw, parsed |-> p]

labels == <<"bear", "lion", "tiger", "wolf", "elephant", "deer">>

SpeciesRecord(name, sci, conf) ==
    [common_name |-> name, scientific_name |-> sci, confidence |-> conf]

\* the dict the fallback branch builds around CLIP's top label
FallbackAnalysis(top) ==
    Outcome("preds",
            [species_detected |-> <<SpeciesRecord(top, "", "medium")>>,
             count |-> 1,
             habitat_type |-> "unknown",
             observations |-> "CLIP fallback",
             recommendation_summary |-> "Observe habitat quality."])

\* what a remote detection response parses to when it follows the schema
Names == {"wolf", "deer"}

RECURSIVE NameSeqs(_)
NameSeqs(n) ==
    IF n = 0 THEN {<<>>}
    ELSE LET shorter == NameSeqs(n - 1) IN
         shorter \cup {Append(q, x) : q \in shorter, x \in Names}

DetectionResult(names) ==
    [species_detected |-> [j \in 1..Len(names) |-> SpeciesRecord(names[j], "sci", "high")],
     count |-> Len(names),
     habitat_type |-> "forest",
     observations |-> "seen",
     recommendation_summary |-> "Monitor."]

ForecastResult ==
    [forecast |-> <<[month |-> "2025-01", population |-> 100, confidence |-> "high"]>>,
     risk_level |-> "Low",
     reasoning |-> "r"]

EcosystemModel ==
    [keystone_species |-> <<"wolf">>, health_score |-> 70, collapse_risk |-> "Low"]

RecommendationSet ==
    [recommended_actions |-> <<[action |-> "a", impact |-> 1, urgency |-> "u"]>>,
     rationale |-> "r"]

\* safe_json_parse(result.text) over the texts a remote model can answer with:
\* null, or the value the text holds
ParsedOf(stage) ==
    {None} \cup
    CASE stage = "detection" -> {DetectionResult(n) : n \in NameSeqs(MaxSpecies)}
      [] stage = "forecast"  -> {ForecastResult}
      [] stage = "ecosystem" -> {EcosystemModel}
      [] stage = "recs"      -> {RecommendationSet}

CsvRows ==
    << [date |-> <<2025, 3, 1>>, count |-> 40],
       [date |-> <<2025, 1, 1>>, count |-> 55],
       [date |-> <<2025, 2, 1>>, count |-> 47] >>

\* pd.read_csv(history_csv, parse_dates=["date"])
CsvFrame == [dateType |-> "datetime64", rows |-> CsvRows]

TodaySamples == {<<FirstYear, 1, 31>>}

(***************************************************************************)
(* The process and the session before the first script run                 *)
(***************************************************************************)
Init ==
    /\ HAS_GEMINI \in BOOLEAN
    /\ envKey \in BOOLEAN
    /\ envAtStart = envKey
    /\ clip_pipe \in {"pipeline", "None"}
    /\ WidgetDefaults
    /\ pc = "idle"
    /\ RunReset
    /\ session_state = <<>>
    /\ today \in TodaySamples
    /\ hpc = "idle" /\ hidx = 0 /\ hist = <<>>
    /\ XIdle
    /\ GIdle

(***************************************************************************)
(* Capability selection and the stage functions                            *)
(***************************************************************************)
\* HAS_GEMINI and "GEMINI_API_KEY" in os.environ
GeminiReady == HAS_GEMINI /\ envKey

\* if not HAS_GEMINI or "GEMINI_API_KEY" not in os.environ: return {"error": ...}
Unavailable == ~HAS_GEMINI \/ ~envKey

Begin(stage, path, args) == [ev |-> "begin", stage |-> stage, path |-> path, args |-> args]

End(stage, path) == [ev |-> "end", stage |-> stage, path |-> path, args |-> <<>>]

Raise(stage) == [ev |-> "raise", stage |-> stage, path |-> "remote", args |-> <<>>]

WaitPc ==
    [detection |-> "detection_wait", forecast |-> "forecast_wait",
     ecosystem |-> "ecosystem_wait", recs |-> "recs_wait"]

\* where the script goes once a stage's result is stored
AfterStage ==
    [detection |-> "show", forecast |-> "ecosystem",
     ecosystem |-> "recs", recs |-> "tab_forecast"]

StoreKey ==
    [detection |-> "analysis", forecast |-> "forecast",
     ecosystem |-> "ecosystem", recs |-> "recs"]

\* the line of each stage function's model.generate_content call
CallLine == [detection |-> 219, forecast |-> 264, ecosystem |-> 314, recs |-> 355]

NonBlocking(stage) == IF stage = "forecast" THEN AfterStage[stage] ELSE WaitPc[stage]

\* result = model.generate_content(...): the script waits for the answer
Blocking(stage) == WaitPc[stage]

\* an exception leaves the script: Streamlit ends the run there
Abort(f) ==
    /\ pc' = "faulted"
    /\ fault' = f

\* species = parsed["species_detected"][0]["common_name"]
FocalSpecies(p) == p.species_detected[1].common_name

FirstOnly(p) == <<p.species_detected[1].common_name>>

\* [s["common_name"] for s in parsed["species_detected"]]
SpeciesList(p) == [j \in 1..Len(p.species_detected) |-> p.species_detected[j].common_name]

\* [{"date": r["date"].strftime("%Y-%m-%d"), "count": int(r["count"])} for ...]
HistoryList(frame) == frame.rows

StageArgs(stage) ==
    CASE stage = "detection" -> <<"img_bytes">>
      [] stage = "forecast"  -> <<FocalSpecies(parsed), HistoryList(df)>>
      [] stage = "ecosystem" -> <<SpeciesList(parsed)>>
      [] stage = "recs"      -> <<FocalSpecies(parsed), parsed.recommendation_summary,
                                  session_state["ecosystem"].parsed>>

\* a stage function is entered: without the capability it returns the error
\* dict at once and the caller stores it; with it the remote call goes out
StageCall(stage) ==
    IF Unavailable
    THEN /\ session_state' = DictSet(session_state, StoreKey[stage], ErrorMarker)
         /\ fresh' = fresh \cup {StoreKey[stage]}
         /\ calls' = calls \o <<Begin(stage, "unavailable", StageArgs(stage)),
                                End(stage, "unavailable")>>
         /\ pc' = AfterStage[stage]
         /\ UNCHANGED fault
    ELSE /\ calls' = Append(calls, Begin(stage, "remote", StageArgs(stage)))
         /\ pc' = Blocking(stage)
         /\ UNCHANGED <<session_state, fresh, fault>>

\* the remote call is over: it raised, or its text went through safe_json_parse
\* and {"raw", "parsed"} is returned and stored
StageReturn(stage) ==
    /\ \/ /\ Abort(Fault("RemoteCallFailure", CallLine[stage]))
          /\ calls' = Append(calls, Raise(stage))
          /\ UNCHANGED <<session_state, fresh>>
       \/ \E p \in ParsedOf(stage) :
          /\ session_state' = DictSet(session_state, StoreKey[stage], Outcome("text", p))
          /\ fresh' = fresh \cup {StoreKey[stage]}
          /\ calls' = Append(calls, End(stage, "remote"))
          /\ pc' = AfterStage[stage]
          /\ UNCHANGED fault
    /\ UNCHANGED <<xvars, hvars, gvars, procvars, widgets, parsed, df>>

(***************************************************************************)
(* One script run                                                          *)
(***************************************************************************)
\* the script starts over: the session's first run has the widgets' defaults,
\* a later one follows a widget interaction (or a plain rerun) and the
\* widgets keep their values except the one the user touched
StartRun ==
    /\ pc \in {"idle", "done", "faulted"}
    /\ \E k \in BOOLEAN, u \in BOOLEAN, h \in {"none", "valid", "malformed"}, a \in BOOLEAN :
         /\ Cardinality({w \in 1..4 : <<k, u, h, a>>[w] # <<api_key, uploaded, history_csv, auto_run>>[w]})
               <= (IF pc = "idle" THEN 0 ELSE 1)
         /\ api_key' = k
         /\ uploaded' = u
         /\ history_csv' = h
         /\ auto_run' = a
    /\ pc' = "sidebar"
    /\ fault' = NoFault
    /\ parsed' = None
    /\ df' = NoFrame
    /\ calls' = <<>>
    /\ fresh' = {}
    /\ UNCHANGED <<xvars, hvars, gvars, procvars, session_state>>

\* if api_key: os.environ["GEMINI_API_KEY"] = api_key
Sidebar ==
    /\ pc = "sidebar"
    /\ envKey' = (envKey \/ api_key)
    /\ pc' = "tab1"
    /\ UNCHANGED <<xvars, hvars, gvars, HAS_GEMINI, envAtStart, clip_pipe, widgets,
                   fault, parsed, df, session_state, calls, fresh>>

\* the same lines run by another session of the process, whose user typed a key
OtherSessionSidebar ==
    /\ ~envKey
    /\ envKey' = TRUE
    /\ UNCHANGED <<xvars, hvars, gvars, HAS_GEMINI, envAtStart, clip_pipe, widgets, runvars>>

\* else: st.info("Upload an image to begin analysis.")
NoUpload ==
    /\ pc = "tab1"
    /\ ~uploaded
    /\ pc' = "tab_forecast"
    /\ UNCHANGED <<xvars, hvars, gvars, procvars, widgets, fault, parsed, df, session_state, calls, fresh>>

\* if HAS_GEMINI and "GEMINI_API_KEY" in os.environ: gemini_species_analysis(img_bytes)
DetectRemoteCall ==
    /\ pc = "tab1"
    /\ uploaded
    /\ GeminiReady
    /\ StageCall("detection")
    /\ UNCHANGED <<xvars, hvars, gvars, procvars, widgets, parsed, df>>

DetectReturn ==
    /\ pc = WaitPc["detection"]
    /\ StageReturn("detection")

\* else: preds = clip_pipe(img, labels); top = preds[0]["label"]; analysis = {...}
DetectFallback ==
    /\ pc = "tab1"
    /\ uploaded
    /\ ~GeminiReady
    /\ IF clip_pipe = "None"
       THEN /\ Abort(Fault("TypeError", 444))
            /\ UNCHANGED <<session_state, calls, fresh>>
       ELSE \E t \in 1..Len(labels) :
            /\ session_state' = DictSet(session_state, "analysis", FallbackAnalysis(labels[t]))
            /\ fresh' = fresh \cup {"analysis"}
            /\ calls' = calls \o <<Begin("detection", "fallback", <<"img">>),
                                   End("detection", "fallback")>>
            /\ pc' = "show"
            /\ UNCHANGED fault
    /\ UNCHANGED <<xvars, hvars, gvars, procvars, widgets, parsed, df>>

\* parsed = analysis["parsed"]; if parsed: ...['species_detected'][0]... else: warning
ShowDetection ==
    /\ pc = "show"
    /\ parsed' = session_state["analysis"].parsed
    /\ IF parsed' # None /\ Len(parsed'.species_detected) = 0
       THEN Abort(Fault("IndexError", 462))
       ELSE pc' = "history" /\ UNCHANGED fault
    /\ UNCHANGED <<xvars, hvars, gvars, procvars, widgets, df, session_state, calls, fresh>>

\* if history_csv: df = pd.read_csv(...) else: the synthetic series;
\* st.session_state["history"] = df
HistoryHandling ==
    /\ pc = "history"
    /\ IF history_csv = "malformed"
       THEN /\ Abort(Fault("ValueError", 473))
            /\ UNCHANGED <<df, session_state, fresh>>
       ELSE /\ df' = IF history_csv = "valid" THEN CsvFrame ELSE SyntheticHistory(today)
            /\ session_state' = DictSet(session_state, "history", df')
            /\ fresh' = fresh \cup {"history"}
            /\ pc' = "autorun"
            /\ UNCHANGED fault
    /\ UNCHANGED <<xvars, hvars, gvars, procvars, widgets, parsed, calls>>

\* if auto_run: (not taken)
AutoRunOff ==
    /\ pc = "autorun"
    /\ ~auto_run
    /\ pc' = "tab_forecast"
    /\ UNCHANGED <<xvars, hvars, gvars, procvars, widgets, fault, parsed, df, session_state, calls, fresh>>

\* species = parsed["species_detected"][0]["common_name"];
\* history_list = [... r["date"].strftime(...) ...]
AutoRunPrepare ==
    /\ pc = "autorun"
    /\ auto_run
    /\ IF parsed = None THEN Abort(Fault("TypeError", 487))
       ELSE IF df.dateType = "str" THEN Abort(Fault("AttributeError", 489))
       ELSE pc' = "forecast" /\ UNCHANGED fault
    /\ UNCHANGED <<xvars, hvars, gvars, procvars, widgets, parsed, df, session_state, calls, fresh>>

\* st.session_state["forecast"] = gemini_population_forecast(species, history_list)
ForecastCall ==
    /\ pc = "forecast"
    /\ StageCall("forecast")
    /\ UNCHANGED <<xvars, hvars, gvars, procvars, widgets, parsed, df>>

ForecastReturn ==
    /\ pc = WaitPc["forecast"]
    /\ StageReturn("forecast")

\* st.session_state["ecosystem"] = gemini_ecosystem_model(species_list)
EcosystemCall ==
    /\ pc = "ecosystem"
    /\ StageCall("ecosystem")
    /\ UNCHANGED <<xvars, hvars, gvars, procvars, widgets, parsed, df>>

EcosystemReturn ==
    /\ pc = WaitPc["ecosystem"]
    /\ StageReturn("ecosystem")

\* st.session_state["recs"] = gemini_recommendations(species, status,
\*     st.session_state["ecosystem"]["parsed"])
RecsCall ==
    /\ pc = "recs"
    /\ IF "parsed" \notin DOMAIN session_state["ecosystem"]
       THEN /\ Abort(Fault("KeyError", 503))
            /\ UNCHANGED <<session_state, calls, fresh>>
       ELSE StageCall("recs")
    /\ UNCHANGED <<xvars, hvars, gvars, procvars, widgets, parsed, df>>

RecsReturn ==
    /\ pc = WaitPc["recs"]
    /\ StageReturn("recs")

\* a tab that reads st.session_state[key]["parsed"] when the key is present
ReadParsed(key, line, next) ==
    /\ IF key \in DOMAIN session_state /\ "parsed" \notin DOMAIN session_state[key]
       THEN Abort(Fault("KeyError", line))
       ELSE pc' = next /\ UNCHANGED fault
    /\ UNCHANGED <<xvars, hvars, gvars, procvars, widgets, parsed, df, session_state, calls, fresh>>

ForecastTab == pc = "tab_forecast" /\ ReadParsed("forecast", 519, "tab_ecosystem")

EcosystemTab == pc = "tab_ecosystem" /\ ReadParsed("ecosystem", 555, "tab_recs")

RecsTab == pc = "tab_recs" /\ ReadParsed("recs", 571, "tab_raw")

\* st.json(st.session_state.get(...)) four times; the script ends
RawTab ==
    /\ pc = "tab_raw"
    /\ pc' = "done"
    /\ UNCHANGED <<xvars, hvars, gvars, procvars, widgets, fault, parsed, df, session_state, calls, fresh>>

Next ==
    \/ StartRun
    \/ Sidebar
    \/ OtherSessionSidebar
    \/ NoUpload
    \/ DetectRemoteCall
    \/ DetectReturn
    \/ DetectFallback
    \/ ShowDetection
    \/ HistoryHandling
    \/ AutoRunOff
    \/ AutoRunPrepare
    \/ ForecastCall
    \/ ForecastReturn
    \/ EcosystemCall
    \/ EcosystemReturn
    \/ RecsCall
    \/ RecsReturn
    \/ ForecastTab
    \/ EcosystemTab
    \/ RecsTab
    \/ RawTab

(***************************************************************************)
(* define_gbif_query_predicate (src/gaianet-ingestor/main.py)              *)
(***************************************************************************)
PrevDay(d) ==
    IF d[3] > 1 THEN <<d[1], d[2], d[3] - 1>>
    ELSE IF d[2] > 1 THEN <<d[1], d[2] - 1, DaysIn(d[1], d[2] - 1)>>
    ELSE <<d[1] - 1, 12, 31>>

RECURSIVE MinusDays(_, _)
MinusDays(d, n) == IF n = 0 THEN d ELSE MinusDays(PrevDay(d), n - 1)

\* dt - timedelta(days=n): the date moves back, the time of day stays
MinusTimedelta(dt, n) == [date |-> MinusDays(dt.date, n), time |-> dt.time]

\* dt.isoformat() + 'Z': the date and the time of day, as they are
IsoFormatZ(dt) == [date |-> dt.date, time |-> dt.time, zone |-> "Z"]

\* start_date = (datetime.utcnow() - timedelta(days=days_back)).isoformat() + 'Z'
StartDate(now, days_back) == IsoFormatZ(MinusTimedelta(now, days_back))

AllowList == <<"HUMAN_OBSERVATION", "MACHINE_OBSERVATION", "PRESERVED_SPECIMEN">>

define_gbif_query_predicate(now, days_back) ==
    [creator |-> "GBIF_USER",
     notificationAddresses |-> <<"GBIF_EMAIL">>,
     format |-> "DWCA",
     predicate |->
       [type |-> "and",
        predicates |->
          << [type |-> "within", key |-> "eventDate",
              value |-> [start |-> StartDate(now, days_back), end |-> ""]],
             [type |-> "isNotNull", key |-> "decimalLatitude"],
             [type |-> "isNotNull", key |-> "decimalLongitude"],
             [type |-> "in", key |-> "basisOfRecord", values |-> AllowList] >>]]

\* the times of day the reference "now" is drawn from: <<h, m, s, microsecond>>
TimeSamples == {<<0, 0, 0, 0>>, <<13, 45, 10, 0>>, <<23, 59, 59, 999999>>}

InitGbif ==
    /\ gnow \in [date : ValidDates, time : TimeSamples]
    /\ gdays \in 0..MaxDaysBack
    /\ gpc = "input"
    /\ gpred = <<>>
    /\ XIdle
    /\ HIdle
    /\ PIdle

CallDefinePredicate ==
    /\ gpc = "input"
    /\ gpred' = define_gbif_query_predicate(gnow, gdays)
    /\ gpc' = "done"
    /\ UNCHANGED <<gnow, gdays, xvars, hvars, pvars>>

NextGbif == CallDefinePredicate

vars == <<xvars, hvars, gvars, pvars>>

SpecGbif == InitGbif /\ [][NextGbif]_vars


SpecExtract == InitExtract /\ [][NextExtract]_vars

SpecHist == InitHist /\ [][NextHist]_vars

Spec == Init /\ [][Next]_vars

(***************************************************************************)
(* The pipeline's claims                                                   *)
(***************************************************************************)
StageKeys == {"analysis", "forecast", "ecosystem", "recs"}

RunEnded == pc \in {"done", "faulted"}

Events == {calls[i] : i \in 1..Len(calls)}

\* C1: a run never lets an exception out of the script: whatever the
\* credential, the classifier, the history, the auto-run box and the stage
\* outcomes, it ends without a fault.
C1_NoUnhandledFault == pc # "faulted" /\ fault = NoFault

\* the stage's function returned the unavailable marker in this run
ReportedUnavailable(stage) == End(stage, "unavailable") \in Events

\* the stages whose stored entry holds an outcome
Populated == {k \in StageKeys \cap DOMAIN session_state : "parsed" \in DOMAIN session_state[k]}

\* C2: no credential, fallback detection with confidence "medium": at the
\* end of the run Forecast, Ecosystem Modeling and Recommendations have all
\* reported "unavailable" and Detection is the one populated stage.  Stated
\* for the runs with advanced analysis on and a well-formed history CSV.
C2_DegradedRun ==
    ( /\ RunEnded
      /\ ~envKey
      /\ auto_run
      /\ history_csv = "valid"
      /\ End("detection", "fallback") \in Events
      /\ session_state["analysis"].parsed.species_detected[1].confidence = "medium" )
    => /\ \A st \in {"forecast", "ecosystem", "recs"} : ReportedUnavailable(st)
       /\ Populated = {"analysis"}

\* C3: a remote call that raises is caught inside its stage function: the
\* stage ends with an unavailable or null outcome in the store and the
\* exception does not reach the script.
C3_RemoteFailureCaught ==
    \A e \in Events :
        e.ev = "raise" => /\ fault.kind # "RemoteCallFailure"
                          /\ StoreKey[e.stage] \in fresh

\* C4: with no credential configured for the run (the sidebar input is
\* empty and the process was not started with one), no stage call of the run
\* takes the remote path, whatever earlier runs or other sessions entered.
C4_AbsentMeansNoRemote ==
    (~api_key /\ ~envAtStart) => \A e \in Events : e.path # "remote"

\* C8 (ecosystem input): whenever gemini_ecosystem_model is entered, the
\* detection outcome in the store has n >= 1 species records and the call's
\* species list is the n common names, in detection order.
C8_EcosystemGetsAll ==
    \A e \in Events :
        (e.ev = "begin" /\ e.stage = "ecosystem") =>
            LET recs == session_state["analysis"].parsed.species_detected IN
            /\ Len(recs) >= 1
            /\ Len(e.args[1]) = Len(recs)
            /\ \A j \in 1..Len(recs) : e.args[1][j] = recs[j].common_name

\* a remote detection with two different species, and the ecosystem call made
C8_Witness ==
    \E e \in Events :
        /\ e.ev = "begin" /\ e.stage = "ecosystem" /\ e.path = "remote"
        /\ e.args[1] = <<"wolf", "deer">>

\* C9: the stage calls of a run are sequential and in dependency order: a
\* call ends before the next begins, Forecast and Ecosystem Modeling begin
\* only after Detection has ended with its outcome, and Recommendations
\* begins only after Ecosystem Modeling is over.
C9_Sequential ==
    /\ \A i \in 1..Len(calls) :
         calls[i].ev = "begin" =>
            \/ i = Len(calls)
            \/ calls[i + 1].ev \in {"end", "raise"} /\ calls[i + 1].stage = calls[i].stage
    /\ \A i \in 1..Len(calls) :
         calls[i].ev \in {"end", "raise"} =>
            i > 1 /\ calls[i - 1].ev = "begin" /\ calls[i - 1].stage = calls[i].stage
    /\ \A i \in 1..Len(calls) :
         (calls[i].ev = "begin" /\ calls[i].stage \in {"forecast", "ecosystem"}) =>
            \E j \in 1..(i - 1) : calls[j].ev = "end" /\ calls[j].stage = "detection"
    /\ \A i \in 1..Len(calls) :
         (calls[i].ev = "begin" /\ calls[i].stage = "recs") =>
            \E j \in 1..(i - 1) :
                calls[j].ev \in {"end", "raise"} /\ calls[j].stage = "ecosystem"

\* all four stages called remotely, Recommendations in flight
C9_Witness ==
    /\ pc = "recs_wait"
    /\ Len(calls) = 7
    /\ calls[7] = Begin("recs", "remote", calls[7].args)
    /\ calls[3].stage = "forecast" /\ calls[5].stage = "ecosystem"

\* C10: every stage entry of the store carries the raw response and a parsed
\* field, and the tabs that read them back do so without failure.
C10_RawAndParsed ==
    /\ \A k \in StageKeys \cap DOMAIN session_state :
          {"raw", "parsed"} \subseteq DOMAIN session_state[k]
    /\ fault.line \notin {519, 555, 571}


\* the run went through detection and history handling with auto-run on
AdvancedRun == RunEnded /\ auto_run /\ parsed # None /\ "history" \in fresh

\* the samples the Forecast stage is to receive in this run
RunHistory == IF history_csv = "valid" THEN CsvRows ELSE SyntheticHistory(today).rows

ForecastInvokedWith(samples) ==
    \E e \in Events :
        /\ e.ev = "begin" /\ e.stage = "forecast"
        /\ e.args[1] = parsed.species_detected[1].common_name
        /\ e.args[2] = samples

\* C12: in a run with auto-run on and Detection parsed, the Forecast stage
\* is invoked with the first species' name and the run's history samples:
\* the supplied samples verbatim and in their order when a history is
\* supplied, otherwise the six synthetic monthly samples in chronological
\* order; in both cases the Forecast stage is reached.
C12_ForecastInvoked == AdvancedRun => ForecastInvokedWith(RunHistory)

\* the stage entries of the store that no step of the current run wrote
Stale == (StageKeys \cap DOMAIN session_state) \ fresh

\* C13: after any sequence of runs in one session every stage entry of the
\* store is the outcome of the most recent run: once a run has stored its
\* Detection outcome and ended (auto-run on or off, ended normally or
\* early), no Forecast, Ecosystem or Recommendations entry of an earlier run
\* remains in the store beside it.
C13_LatestRunOnly ==
    (RunEnded /\ "analysis" \in fresh) => Stale \cap {"forecast", "ecosystem", "recs"} = {}

(***************************************************************************)
(* The GBIF predicate's claim                                              *)
(***************************************************************************)
LeapDaysBefore(y) == ((y - 1) \div 4) - ((y - 1) \div 100) + ((y - 1) \div 400)

RECURSIVE DaysBeforeMonth(_, _)
DaysBeforeMonth(y, m) == IF m = 1 THEN 0 ELSE DaysBeforeMonth(y, m - 1) + DaysIn(y, m - 1)

\* the day's number in the proleptic Gregorian calendar
Ordinal(d) == 365 * (d[1] - 1) + LeapDaysBefore(d[1]) + DaysBeforeMonth(d[1], d[2]) + d[3]

GbifClauses == {gpred.predicate.predicates[i] : i \in 1..Len(gpred.predicate.predicates)}

GbifStart == gpred.predicate.predicates[1].value.start

ThreeFilterClauses ==
    /\ [type |-> "isNotNull", key |-> "decimalLatitude"] \in GbifClauses
    /\ [type |-> "isNotNull", key |-> "decimalLongitude"] \in GbifClauses
    /\ \E c \in GbifClauses :
          /\ c.type = "in" /\ c.key = "basisOfRecord"
          /\ c.values = <<"HUMAN_OBSERVATION", "MACHINE_OBSERVATION", "PRESERVED_SPECIMEN">>

StartIsDaysBack ==
    /\ gpred.predicate.predicates[1].key = "eventDate"
    /\ Ordinal(GbifStart.date) = Ordinal(gnow.date) - gdays

\* C11: for days_back = N and a reference now, the eventDate start boundary
\* is exactly N days before now at midnight UTC (time of day 00:00:00), and
\* the predicate holds the three filter clauses whatever the input.
C11_MidnightBoundary ==
    gpc = "done" =>
        /\ StartIsDaysBack
        /\ GbifStart.time = <<0, 0, 0, 0>>
        /\ ThreeFilterClauses

(***************************************************************************)
(* The extractor's claims                                                  *)
(***************************************************************************)
IsStructured(v) == v.t \in {"num", "str", "obj"}

\* C5: safe_json_parse never raises: on every input string -- the empty
\* string, unbalanced or reversed braces, garbage -- the call returns, and
\* what it returns is a structured value or null.
C5_NeverRaises ==
    xpc = "done" => /\ ~xres.raised
                    /\ (xres.value = None \/ IsStructured(xres.value))

\* a "}" before the only "{": the call has returned null
C5_Witness ==
    /\ xpc = "done"
    /\ text = <<"}", "{">>
    /\ xres = Returned(None)

HasChar(s, c) == \E i \in 1..Len(s) : s[i] = c

FirstPos(s, c) == CHOOSE i \in 1..Len(s) : s[i] = c /\ \A j \in 1..(i - 1) : s[j] # c

LastPos(s, c) == CHOOSE i \in 1..Len(s) : s[i] = c /\ \A j \in (i + 1)..Len(s) : s[j] # c

\* the characters from the first "{" to the last "}", both included
Delimited(s) == [j \in 1..(LastPos(s, "}") - FirstPos(s, "{") + 1) |-> s[FirstPos(s, "{") + j - 1]]

ThreeTier(s) ==
    IF json_loads(s).ok THEN json_loads(s).val
    ELSE IF HasChar(s, "{") /\ HasChar(s, "}") /\ json_loads(Delimited(s)).ok
         THEN json_loads(Delimited(s)).val
         ELSE None

NoisyObjA1 == <<"a", " ">> \o ObjA1 \o <<" ", "a">>

\* C6: the three-tier policy: the whole string's value when it parses;
\* otherwise the value of the substring from the first "{" to the last "}"
\* when both exist and it parses; otherwise null.  Noise around {"a":1}
\* yields {"a": 1}, {a: } yields null, the empty string yields null.
C6_ThreeTier ==
    xpc = "done" =>
        /\ xres.value = ThreeTier(text)
        /\ (text = NoisyObjA1 => xres.value = JObj(<<"a">> :> JNum(1)))
        /\ (text = BadObj => xres.value = None)
        /\ (text = <<>> => xres.value = None)

\* noise around one JSON object: the object came back
C6_Witness ==
    /\ xpc = "done"
    /\ text = NoisyObjA1
    /\ xres.value = JObj(<<"a">> :> JNum(1))

(***************************************************************************)
(* The synthetic history's claim                                           *)
(***************************************************************************)
DateLess(a, b) ==
    \/ a[1] < b[1]
    \/ a[1] = b[1] /\ a[2] < b[2]
    \/ a[1] = b[1] /\ a[2] = b[2] /\ a[3] < b[3]

\* b is the first day of the month after a's month
NextMonthStart(a, b) ==
    /\ a[3] = 1 /\ b[3] = 1
    /\ \/ a[2] < 12 /\ b[1] = a[1] /\ b[2] = a[2] + 1
       \/ a[2] = 12 /\ b[1] = a[1] + 1 /\ b[2] = 1

SixMonthStarts ==
    /\ Len(hist) = 6
    /\ \A j \in 1..5 : DateLess(hist[j].date, hist[j + 1].date)
    /\ \A j \in 1..5 : NextMonthStart(hist[j].date, hist[j + 1].date)
    /\ hist[6].date = <<today[1], today[2], 1>>

Counts == [j \in 1..Len(hist) |-> hist[j].count]

\* C7 as stated: counts 120, 108, 96, 84, 72, 60 from oldest to newest
C7_AsStated ==
    hpc = "done" => SixMonthStarts /\ Counts = <<120, 108, 96, 84, 72, 60>>

\* C7 (amended): six samples, strictly increasing in date, the first days of
\* the six months ending at the current month, with counts 60, 72, 84, 96,
\* 108, 120 from oldest to newest (120 is the current month's count).
C7_History ==
    hpc = "done" => SixMonthStarts /\ Counts = <<60, 72, 84, 96, 108, 120>>

\* a current date in January: the six months span two years
C7_Witness ==
    /\ hpc = "done"
    /\ today[2] = 1
    /\ Len(hist) = 6
    /\ hist[1].date[1] = today[1] - 1

=============================================================================
